---- MODULE Spec2Model ----
(***************************************************************************)
(* A* path search of lua-astar.                                            *)
(*                                                                         *)
(*   grid variant     src/src/index.ts      (map of cells, offsets list)   *)
(*   generic variant  src/unnamed/part_000  (nodes, callbacks, ffi buffer) *)
(*                                                                         *)
(* Numbers are integers in thousandths: 1 is 1000 and math.sqrt(2) is 1414.*)
(* travelCost is a plain integer multiplier.  Arrays keep the source's     *)
(* 0-based indices; a TLA+ sequence s holds source element i at s[i + 1].  *)
(* A behaviour is a caller using one of the two variants: the variables of *)
(* the other variant stay empty.                                           *)
(***************************************************************************)
EXTENDS Integers, Sequences, FiniteSets, TLC

\* ------------------------------------------------------------- bounds
\* largest x and y index of the searched grid, and how many of its cells
\* may be blocked or free to enter (travelCost 0)
MaxX == 2
MaxY == 1
MaxBlocked == 2
MaxFree == 1
\* number of nodes of the graphs given to the generic variant
MaxNode == 3
\* number of astar calls a caller makes on the same map or nodes
MaxCalls == 2

\* ---------------------------------------------------------- constants
One == 1000
Sqrt2 == 1414

undefined == 0 - 1
\* node identities: a map cell is <<x, y>>, a LuaNode of index k is <<k, 0>>,
\* the object literal that call number c seeds its open list with is
\* <<-1, -c>>, and Nil is `undefined`
StartNode(c) == <<0 - 1, 0 - c>>
IsStartNode(n) == n[1] = 0 - 1
Nil == <<0 - 2, 0 - 2>>
\* the `undefined` the generic astar returns, apart from every list of nodes
Absent == <<Nil>>

VARIABLES
    variant,            \* "grid" | "generic": the module the caller uses
    calls,              \* number of astar calls begun
    map,                \* CollidableMap: cell <<x, y>> -> eCollidable
    ffiMap,             \* FFIMap: index -> FFIStruct
    luaMap,             \* LuaMap: node -> LuaNode
    graph,              \* what luaMap.getNeighbors answers from: the edges
    estimate,           \* what luaMap.heuristic answers from: index -> number
    neighbors,          \* the configured neighbor list
    straightDistance,   \* heuristic weights
    diagonalDistance,
    start, end,         \* arguments of the running astar call
    startObj,           \* the start node astar builds
    openList,           \* PriorityList: set of [key, node]
    usedList,           \* LuaTable keyed by node: the closed set
    cur,                \* the node the last turn of the loop took, or Nil
    finpath,            \* node the search loop ended on, or Nil
    revpath,            \* the returned value (empty before the return)
    evaluated,          \* <<from, to>> pairs the last expansion gave to checkTile
    err,                \* "none", or the error that aborted the call
    pc,                 \* "search" | "extract" | "done" | "failed"
    fresh,              \* the same call made on a copy of the map without
                        \* search metadata, run in step with a repeated call
    returned            \* what the calls so far were given and returned

vars == <<variant, calls, map, ffiMap, luaMap, graph, estimate, neighbors, straightDistance,
          diagonalDistance, start, end, startObj, openList, usedList, cur,
          finpath, revpath, evaluated, err, pc, fresh, returned>>

\* ------------------------------------------------------ configuration
\* index.ts 63-72 (blockedBy of entry 5 is [0, 5] in the source)
DefaultNeighbors ==
    << [x |-> 0 - 1, y |-> 0,     pathCost |-> One,   blockedBy |-> <<>>],
       [x |-> 1,     y |-> 0,     pathCost |-> One,   blockedBy |-> <<>>],
       [x |-> 0,     y |-> 0 - 1, pathCost |-> One,   blockedBy |-> <<>>],
       [x |-> 0,     y |-> 1,     pathCost |-> One,   blockedBy |-> <<>>],
       [x |-> 0 - 1, y |-> 0 - 1, pathCost |-> Sqrt2, blockedBy |-> <<0, 2>>],
       [x |-> 0 - 1, y |-> 1,     pathCost |-> Sqrt2, blockedBy |-> <<0, 5>>],
       [x |-> 1,     y |-> 0 - 1, pathCost |-> Sqrt2, blockedBy |-> <<2, 1>>],
       [x |-> 1,     y |-> 1,     pathCost |-> Sqrt2, blockedBy |-> <<3, 1>>] >>

Abs(n) == IF n < 0 THEN 0 - n ELSE n
Min2(a, b) == IF a < b THEN a ELSE b

\* index.ts 46-51; the weights are in thousandths, the result too
heuristic_sum(node, goal) ==
    straightDistance * (Abs(node.x - goal.x) + Abs(node.y - goal.y))
\* index.ts 46-51
heuristic(node, goal) ==
    LET dx == Abs(node.x - goal.x)
        dy == Abs(node.y - goal.y)
    IN  straightDistance * (dx + dy)
          + (diagonalDistance - 2 * straightDistance) * Min2(dx, dy)

\* ------------------------------------------------------------ objects
\* A search state S of the grid variant is a record with the fields map,
\* startObj, openList, usedList, evaluated and err.
\* The object behind a node identity.
Obj(S, n) == IF IsStartNode(n) THEN S.startObj ELSE S.map[n]

\* write field values `upd` (a record) into the object behind n
SetObj(S, n, upd) ==
    LET old == Obj(S, n)
        new == [f \in DOMAIN old |-> IF f \in DOMAIN upd THEN upd[f] ELSE old[f]]
    IN  IF IsStartNode(n) THEN [S EXCEPT !.startObj = new]
                          ELSE [S EXCEPT !.map[n] = new]

\* map[x] is a row of the grid
HasRow(m, x) == \E c \in DOMAIN m : c[1] = x
\* map[x][y], Nil when the row has no such cell
Cell(m, x, y) == IF <<x, y>> \in DOMAIN m THEN <<x, y>> ELSE Nil

\* ------------------------------------------------------- PriorityList
isPresent(list, n) == \E e \in list : e.node = n
remove(list, n) == {e \in list : e.node # n}
put(list, k, n) == list \cup {[key |-> k, node |-> n]}
\* the entries take() may hand out: those of least key
Least(list) == {e \in list : \A o \in list : e.key <= o.key}

\* `v && ...` on a number of the Lua build: only nil is false
Truthy(v) == v # undefined

\* ---------------------------------------------------------- checkTile
passable_open(cell) == TRUE
\* index.ts 105, part_000 72
passable(cell) == ~cell.blocked

betterThanOpen_orEqual(stored, pathCost) == Truthy(stored) /\ pathCost <= stored
\* index.ts 115: an open target whose stored cost the candidate beats
betterThanOpen(stored, pathCost) == Truthy(stored) /\ pathCost < stored

betterThanClosed_never(stored, pathCost) == FALSE
betterThanClosed_orEqual(stored, pathCost) == Truthy(stored) /\ stored >= pathCost
\* index.ts 121: a closed target whose stored cost the candidate beats
betterThanClosed(stored, pathCost) == Truthy(stored) /\ stored > pathCost

inClosed_never(S, target) == FALSE
inClosed_flag(S, target) == S.map[target].inClosedList = TRUE
\* index.ts 112: usedList.has(target)
inClosed(S, target) == target \in S.usedList

found_weight(pathCost, hCost, parent) ==
    [pathCost |-> pathCost, heuristicToEnd |-> hCost, previous |-> parent,
     totalWeight |-> pathCost]
found_all(pathCost, hCost, parent) ==
    [pathCost |-> pathCost, heuristicToEnd |-> hCost, previous |-> parent,
     totalWeight |-> pathCost + hCost, travelCost |-> pathCost]
\* index.ts 128-131: the fields checkTile writes into the target it inserts
found(pathCost, hCost, parent) ==
    [pathCost |-> pathCost, heuristicToEnd |-> hCost, previous |-> parent,
     totalWeight |-> pathCost + hCost]

loopDetected_swapped(S, target, parent) == Obj(S, target).previous = parent
\* index.ts 135
loopDetected(S, target, parent) ==
    Obj(S, Obj(S, target).previous).previous = target

\* index.ts 93-140
checkTile(S, target, parent, tileTravelCost) ==
    IF target = Nil THEN S
    ELSE IF ~passable(S.map[target]) THEN S
    ELSE
      LET tcost == tileTravelCost
          cost == S.map[target].travelCost * tcost
          parentCost == IF Truthy(Obj(S, parent).pathCost)
                        THEN Obj(S, parent).pathCost ELSE 0
          pathCost == parentCost + cost
          stored == S.map[target].pathCost
          wasOpen == isPresent(S.openList, target)
          wasClosed == inClosed(S, target)
          dropOpen == wasOpen /\ betterThanOpen(stored, pathCost)
          dropClosed == wasClosed /\ betterThanClosed(stored, pathCost)
          inOpenList == wasOpen /\ ~dropOpen
          inClosedList == wasClosed /\ ~dropClosed
          S1 == [S EXCEPT
                   !.openList = IF dropOpen THEN remove(@, target) ELSE @,
                   !.usedList = IF dropClosed THEN @ \ {target} ELSE @]
      IN  IF inOpenList \/ inClosedList THEN S1
          ELSE
            LET hCost == heuristic(S.map[target], S.map[end])
                S2 == SetObj(S1, target, found(pathCost, hCost, parent))
                S3 == [S2 EXCEPT !.openList = put(@, pathCost + hCost, target)]
                S4 == SetObj(S3, target, [inOpenList |-> TRUE])
            IN  IF loopDetected(S4, target, parent)
                THEN [S4 EXCEPT !.err = "loop detected"]
                ELSE S4

\* ----------------------------------------------------- parseNeighbors
\* `map[..] && map[..][..] && map[..][..].blocked`
BlockedAt(m, x, y) == <<x, y>> \in DOMAIN m /\ m[<<x, y>>].blocked

\* index.ts 161-186: the loop body for neighbors[i]
visit(S, target, i) ==
    LET t == Obj(S, target)
        d == neighbors[i + 1]
    IN  IF ~HasRow(S.map, t.x + d.x) THEN S
        ELSE
          LET neighbor == Cell(S.map, t.x + d.x, t.y + d.y)
              call == checkTile([S EXCEPT !.evaluated =
                                   IF neighbor = Nil THEN @
                                   ELSE @ \cup {<<(<<t.x, t.y>>), neighbor>>}],
                                neighbor, target, d.pathCost)
          IN  IF neighbor = t.previous THEN S
              ELSE IF d.blockedBy # <<>>
              THEN
                LET bi1 == d.blockedBy[1]
                    bi2 == d.blockedBy[2]
                IN  IF ~(bi1 + 1 \in DOMAIN neighbors /\ bi2 + 1 \in DOMAIN neighbors)
                    THEN [S EXCEPT !.err = "index"]
                    ELSE
                      LET n2 == BlockedAt(S.map, t.x + neighbors[bi1 + 1].x,
                                                 t.y + neighbors[bi1 + 1].y)
                          n3 == BlockedAt(S.map, t.x + neighbors[bi2 + 1].x,
                                                 t.y + neighbors[bi2 + 1].y)
                      IN  IF ~(n2 /\ n3) THEN call ELSE S
              ELSE call

RECURSIVE forNeighbors(_, _, _)
\* index.ts 160: for i of $range(0, neighbors.length - 1); an error ends it
forNeighbors(S, target, i) ==
    IF i > Len(neighbors) - 1 \/ S.err # "none" THEN S
    ELSE forNeighbors(visit(S, target, i), target, i + 1)

\* index.ts 149-151: the popped node is at the end's coordinates
AtEnd(S, target) ==
    Obj(S, target).x = end[1] /\ Obj(S, target).y = end[2]

\* index.ts 153-187: the expansion of a popped node that is not the end
parseNeighbors(S, target) ==
    LET t == Obj(S, target)
        S1 == SetObj(S, target, [inClosedList |-> TRUE, inOpenList |-> FALSE])
        S2 == [S1 EXCEPT !.usedList = @ \cup {<<t.x, t.y>>}, !.evaluated = {}]
    IN  forNeighbors(S2, target, 0)

\* -------------------------------------------------------------- astar
FreshCell(x, y, blocked, travelCost) ==
    [x |-> x, y |-> y, blocked |-> blocked, travelCost |-> travelCost,
     pathCost |-> undefined, heuristicToEnd |-> undefined, previous |-> Nil,
     totalWeight |-> undefined, inOpenList |-> FALSE, inClosedList |-> FALSE]

\* index.ts 198-218: the locals of call number c, the open list seeded with
\* the start
Seed(m, s, e, c) ==
    LET h == heuristic(m[s], m[e])
        tcost == m[s].travelCost * One
    IN  [map |-> m,
         startObj |-> [FreshCell(s[1], s[2], m[s].blocked, m[s].travelCost) EXCEPT
                         !.pathCost = tcost, !.heuristicToEnd = h,
                         !.totalWeight = h + tcost],
         openList |-> {[key |-> h + tcost, node |-> StartNode(c)]},
         usedList |-> {},
         evaluated |-> {},
         err |-> "none"]

Now == [map |-> map, startObj |-> startObj, openList |-> openList,
        usedList |-> usedList, evaluated |-> evaluated, err |-> err]

RECURSIVE walk(_, _, _)
\* index.ts 229-240: the coordinates along the back-pointers of node n
walk(S, n, fuel) ==
    IF n = Nil \/ fuel = 0 THEN <<>>
    ELSE <<[x |-> Obj(S, n).x, y |-> Obj(S, n).y]>>
           \o walk(S, Obj(S, n).previous, fuel - 1)

Lines_forward(path) ==
    [k \in 1..Len(path) |->
        [x |-> path[k].x, y |-> path[k].y,
         nextX |-> IF k < Len(path) THEN path[k + 1].x ELSE path[k].x,
         nextY |-> IF k < Len(path) THEN path[k + 1].y ELSE path[k].y]]

\* index.ts 243-254: each coordinate with the one before it in the list
Lines(path) ==
    [k \in 1..Len(path) |->
        [x |-> path[k].x, y |-> path[k].y,
         nextX |-> IF k > 1 THEN path[k - 1].x ELSE path[k].x,
         nextY |-> IF k > 1 THEN path[k - 1].y ELSE path[k].y]]

\* ------------------------------------------------- the generic variant
\* A search state S of the generic variant is a record with the fields
\* ffiMap, luaMap, startObj, openList, usedList, evaluated and err.
ObjG(S, n) == IF IsStartNode(n) THEN S.startObj ELSE S.luaMap[n]

RECURSIVE Ascending(_)
Ascending(set) ==
    IF set = {} THEN <<>>
    ELSE LET least == CHOOSE a \in set : \A b \in set : a <= b
         IN  <<least>> \o Ascending(set \ {least})

\* part_000 37: the caller's getNeighbors gives the nodes that share an edge
\* with the node of the same index, in the order of their indices
getNeighbors(S, node) ==
    LET i == ObjG(S, node).ffiIndex
        adj == Ascending({k \in 1..Len(S.ffiMap) : {i, k} \in graph})
    IN  [j \in 1..Len(adj) |-> <<adj[j], 0>>]

\* part_000 38: the caller's twoNodeDist; every edge is of length 1
twoNodeDist(node, node2) == One

\* part_000 36: the caller's heuristic, a number for each node
heuristicG(node, node2) == estimate[node[1]]

\* part_000 66
previousIs(S, thisNode, parentNode) == ObjG(S, thisNode).previous = parentNode

\* part_000 53-111
checkTileG(S, thisNode, parentNode) ==
    IF thisNode = Nil THEN S
    ELSE IF previousIs(S, thisNode, parentNode) THEN S
    ELSE
      LET ffiIndex == ObjG(S, thisNode).ffiIndex
      IN  IF ~passable(S.ffiMap[ffiIndex]) THEN S
          ELSE
            LET tcost == twoNodeDist(thisNode, parentNode)
                cost == S.ffiMap[ffiIndex].travelCost * tcost
                parentStored == S.ffiMap[ObjG(S, parentNode).ffiIndex].pathCost
                parentCost == IF Truthy(parentStored) THEN parentStored ELSE 0
                pathCost == parentCost + cost
                stored == S.ffiMap[ffiIndex].pathCost
                wasOpen == isPresent(S.openList, thisNode)
                wasClosed == thisNode \in S.usedList
                dropOpen == wasOpen /\ betterThanOpen(stored, pathCost)
                dropClosed == wasClosed /\ betterThanClosed(stored, pathCost)
                inOpenList == wasOpen /\ ~dropOpen
                inClosedList == wasClosed /\ ~dropClosed
                S1 == [S EXCEPT
                         !.openList = IF dropOpen THEN remove(@, thisNode) ELSE @,
                         !.usedList = IF dropClosed THEN @ \ {thisNode} ELSE @]
            IN  IF inOpenList \/ inClosedList THEN S1
                ELSE
                  LET hCost == heuristicG(thisNode, end)
                      S2 == [S1 EXCEPT
                               !.ffiMap[ffiIndex].pathCost = pathCost,
                               !.ffiMap[ffiIndex].heuristicToEnd = hCost,
                               !.ffiMap[ffiIndex].totalWeight = pathCost + hCost,
                               !.ffiMap[ffiIndex].inOpenList = TRUE,
                               !.luaMap[thisNode].previous = parentNode,
                               !.openList = put(@, pathCost + hCost, thisNode)]
                  IN  IF ObjG(S2, ObjG(S2, thisNode).previous).previous = thisNode
                      THEN [S2 EXCEPT !.err = "loop detected"]
                      ELSE S2

RECURSIVE forNeighborsG(_, _, _, _)
\* part_000 134-136: for neigh of neighbors; an error ends it
forNeighborsG(S, thisNode, list, j) ==
    IF j > Len(list) \/ S.err # "none" THEN S
    ELSE forNeighborsG(
           checkTileG([S EXCEPT !.evaluated = @ \cup {<<thisNode, list[j]>>}],
                      list[j], thisNode),
           thisNode, list, j + 1)

\* part_000 121: thisNode == end compares the two objects
AtEndG(thisNode) == thisNode = end

\* part_000 125-136: the expansion of a popped node that is not the end
parseNeighborsG(S, thisNode) ==
    LET i == ObjG(S, thisNode).ffiIndex
        S1 == [S EXCEPT !.ffiMap[i].inClosedList = TRUE,
                        !.ffiMap[i].inOpenList = FALSE,
                        !.usedList = @ \cup {thisNode},
                        !.evaluated = {}]
    IN  forNeighborsG(S1, thisNode, getNeighbors(S1, thisNode), 1)

\* an FFIStruct as the caller allocates it: the numbers are zero
FreshStruct(blocked, travelCost) ==
    [x |-> 0, y |-> 0, blocked |-> blocked, travelCost |-> travelCost,
     pathCost |-> 0, heuristicToEnd |-> 0, totalWeight |-> 0,
     inOpenList |-> FALSE, inClosedList |-> FALSE]

\* part_000 147-161: the locals of call number c, the open list seeded with
\* an object of the start's index
SeedG(fm, lm, s, e, c) ==
    LET h == heuristicG(s, e)
        ffiIndex == lm[s].ffiIndex
    IN  [ffiMap |-> fm,
         luaMap |-> lm,
         startObj |-> [previous |-> Nil, ffiIndex |-> ffiIndex],
         openList |-> {[key |-> h + fm[ffiIndex].travelCost * One,
                        node |-> StartNode(c)]},
         usedList |-> {},
         evaluated |-> {},
         err |-> "none"]

NowG == [ffiMap |-> ffiMap, luaMap |-> luaMap, startObj |-> startObj,
         openList |-> openList, usedList |-> usedList, evaluated |-> evaluated,
         err |-> err]

RECURSIVE stepsFrom(_, _, _)
\* part_000 175-181: the nodes behind node n along the back-pointers
stepsFrom(S, n, fuel) ==
    IF ObjG(S, n).previous = Nil \/ fuel = 0 THEN <<>>
    ELSE <<ObjG(S, n).previous>> \o stepsFrom(S, ObjG(S, n).previous, fuel - 1)

\* part_000 171-190: undefined unless the walk collected a node
result(S, fin) ==
    LET steps == IF fin = Nil THEN <<>>
                 ELSE stepsFrom(S, fin, Len(S.ffiMap) + 2)
    IN  IF Len(steps) > 0 THEN steps ELSE Absent

\* ------------------------------------------------------------ callers
Grid == (0..MaxX) \X (0..MaxY)

MakeMap(cells, B, Z) ==
    [c \in cells |-> FreshCell(c[1], c[2], c \in B, IF c \in Z THEN 0 ELSE 1)]

\* the maps searched: the grid with some cells blocked and the others of
\* travelCost 1 or all free to enter, the grid with some cells free, and the
\* 5x5 open grid of the spec's scenario
Maps ==
    { MakeMap(Grid, B, Z) :
        B \in {b \in SUBSET Grid : Cardinality(b) <= MaxBlocked}, Z \in {{}, Grid} }
      \cup
    { MakeMap(Grid, {}, Z) : Z \in {z \in SUBSET Grid : Cardinality(z) <= MaxFree} }

Scenario == MakeMap((0..4) \X (0..4), {}, {})

Calls ==
    { [m |-> m, s |-> s, e |-> e] : m \in Maps, s \in Grid, e \in Grid }
      \cup { [m |-> Scenario, s |-> <<0, 0>>, e |-> <<4, 4>>] }

\* the maps a caller searches more than once
ReuseMaps ==
    { MakeMap(Grid, B, {}) : B \in {b \in SUBSET Grid : Cardinality(b) < MaxBlocked} }
      \cup
    { MakeMap(Grid, {}, Z) : Z \in {z \in SUBSET Grid : Cardinality(z) <= MaxFree} }

ReuseCalls == { [m |-> m, s |-> s, e |-> e] : m \in ReuseMaps, s \in Grid, e \in Grid }

Nodes == {<<k, 0>> : k \in 1..MaxNode}
Edges == {{i, k} : i \in 1..MaxNode, k \in 1..MaxNode} \ {{i} : i \in 1..MaxNode}

\* the estimates a caller's heuristic gives the nodes
Estimates == [1..MaxNode -> {0, 2 * One}]
NoEstimate == [k \in 1..MaxNode |-> 0]

\* the graphs searched: any edges, some nodes blocked, the nodes of
\* travelCost 1 or all free to enter, a buffer of zeros
Graphs ==
    { [g |-> g,
       h |-> h,
       fm |-> [k \in 1..MaxNode |-> FreshStruct(k \in B, IF k \in Z THEN 0 ELSE 1)],
       lm |-> [n \in Nodes |-> [previous |-> Nil, ffiIndex |-> n[1]]],
       s |-> s, e |-> e] :
        g \in SUBSET Edges,
        h \in Estimates,
        B \in {b \in SUBSET (1..MaxNode) : Cardinality(b) <= MaxBlocked},
        Z \in {{}, 1..MaxNode},
        s \in Nodes, e \in Nodes }

\* a graph with two ways to node 4: through node 2, and through node 3,
\* which is free to enter and has the only estimate above zero (no more
\* than its true cost to the end, node 5)
Diamond ==
    [g |-> {{1, 2}, {1, 3}, {2, 4}, {3, 4}, {4, 5}},
     h |-> [k \in 1..5 |-> IF k = 3 THEN 2 * One ELSE 0],
     fm |-> [k \in 1..5 |-> FreshStruct(FALSE, IF k = 3 THEN 0 ELSE 1)],
     lm |-> [n \in {<<k, 0>> : k \in 1..5} |-> [previous |-> Nil, ffiIndex |-> n[1]]],
     s |-> <<1, 0>>, e |-> <<5, 0>>]

GraphCalls == Graphs \cup {Diamond}

\* the graphs a caller searches more than once
ReuseGraphs ==
    {c \in Graphs : c.h = NoEstimate /\ \A k \in 1..MaxNode : c.fm[k].travelCost = 1}

\* the copy of a map that has no search metadata
Clean(m) ==
    [c \in DOMAIN m |-> FreshCell(m[c].x, m[c].y, m[c].blocked, m[c].travelCost)]

Idle == [pc |-> "idle"]

\* the call on the copy takes the same turn of its loop, when it can
ShadowPop(F, e) ==
    IF F.pc # "search" \/ e \notin Least(F.openList) THEN F
    ELSE LET S == [F EXCEPT !.openList = @ \ {e}]
         IN  IF AtEnd(S, e.node)
             THEN [S EXCEPT !.finpath = e.node, !.pc = "extract"]
             ELSE LET R == parseNeighbors(S, e.node)
                  IN  [R EXCEPT !.pc = IF R.err = "none" THEN "search" ELSE "failed"]

ShadowExhaust(F) ==
    IF F.pc = "search" /\ F.openList = {} THEN [F EXCEPT !.pc = "extract"] ELSE F

ShadowExtract(F) ==
    IF F.pc # "extract" THEN F
    ELSE [F EXCEPT !.revpath = Lines(walk(F, F.finpath, Cardinality(DOMAIN F.map) + 2)),
                   !.openList = {},
                   !.pc = "done"]

ShadowSeed(m, s, e, c) ==
    LET S == Seed(Clean(m), s, e, c)
    IN  [map |-> S.map, startObj |-> S.startObj, openList |-> S.openList,
         usedList |-> S.usedList, evaluated |-> S.evaluated, err |-> S.err,
         pc |-> "search", finpath |-> Nil, revpath |-> <<>>]

\* ------------------------------------------------------------ actions
Install(S) ==
    /\ map' = S.map
    /\ startObj' = S.startObj
    /\ openList' = S.openList
    /\ usedList' = S.usedList
    /\ evaluated' = S.evaluated
    /\ err' = S.err

InstallG(S) ==
    /\ ffiMap' = S.ffiMap
    /\ luaMap' = S.luaMap
    /\ startObj' = S.startObj
    /\ openList' = S.openList
    /\ usedList' = S.usedList
    /\ evaluated' = S.evaluated
    /\ err' = S.err

Begin ==
    /\ neighbors = DefaultNeighbors
    /\ straightDistance = One
    /\ diagonalDistance = Sqrt2
    /\ calls = 1
    /\ cur = Nil
    /\ finpath = Nil
    /\ revpath = <<>>
    /\ pc = "search"
    /\ fresh = Idle
    /\ returned = <<>>

InitGrid(C) ==
    /\ variant = "grid"
    /\ ffiMap = <<>>
    /\ luaMap = <<>>
    /\ graph = {}
    /\ estimate = <<>>
    /\ \E c \in C :
         LET S == Seed(c.m, c.s, c.e, 1)
         IN  /\ start = c.s
             /\ end = c.e
             /\ map = S.map
             /\ startObj = S.startObj
             /\ openList = S.openList
             /\ usedList = S.usedList
             /\ evaluated = S.evaluated
             /\ err = S.err

InitGeneric(C) ==
    /\ variant = "generic"
    /\ map = <<>>
    /\ \E c \in C :
         LET S == SeedG(c.fm, c.lm, c.s, c.e, 1)
         IN  /\ graph = c.g
             /\ estimate = c.h
             /\ start = c.s
             /\ end = c.e
             /\ ffiMap = S.ffiMap
             /\ luaMap = S.luaMap
             /\ startObj = S.startObj
             /\ openList = S.openList
             /\ usedList = S.usedList
             /\ evaluated = S.evaluated
             /\ err = S.err

Init == Begin /\ (InitGrid(Calls) \/ InitGeneric(GraphCalls))

\* index.ts 220-226: one turn of the while loop
Pop ==
    /\ variant = "grid"
    /\ pc = "search"
    /\ openList # {}
    /\ \E e \in Least(openList) :
         \E S \in {[Now EXCEPT !.openList = @ \ {e}]} :
           /\ cur' = e.node
           /\ fresh' = ShadowPop(fresh, e)
           /\ IF AtEnd(S, e.node)
              THEN /\ Install(S)
                   /\ finpath' = e.node
                   /\ pc' = "extract"
              ELSE \E R \in {parseNeighbors(S, e.node)} :
                     /\ Install(R)
                     /\ finpath' = finpath
                     /\ pc' = IF R.err = "none" THEN "search" ELSE "failed"
    /\ UNCHANGED <<variant, calls, ffiMap, luaMap, graph, estimate, neighbors, straightDistance,
                   diagonalDistance, start, end, revpath, returned>>

\* part_000 163-169: one turn of the while loop
PopG ==
    /\ variant = "generic"
    /\ pc = "search"
    /\ openList # {}
    /\ \E e \in Least(openList) :
         \E S \in {[NowG EXCEPT !.openList = @ \ {e}]} :
           /\ cur' = e.node
           /\ IF AtEndG(e.node)
              THEN /\ InstallG(S)
                   /\ finpath' = e.node
                   /\ pc' = "extract"
              ELSE \E R \in {parseNeighborsG(S, e.node)} :
                     /\ InstallG(R)
                     /\ finpath' = finpath
                     /\ pc' = IF R.err = "none" THEN "search" ELSE "failed"
    /\ UNCHANGED <<variant, calls, map, graph, estimate, neighbors, straightDistance,
                   diagonalDistance, start, end, revpath, fresh, returned>>

\* index.ts 220, part_000 163: the loop ends on an empty open list
Exhaust ==
    /\ pc = "search"
    /\ openList = {}
    /\ pc' = "extract"
    /\ fresh' = ShadowExhaust(fresh)
    /\ UNCHANGED <<variant, calls, map, ffiMap, luaMap, graph, estimate, neighbors,
                   straightDistance, diagonalDistance, start, end, startObj,
                   openList, usedList, cur, finpath, revpath, evaluated, err,
                   returned>>

\* index.ts 228-258
Extract ==
    /\ variant = "grid"
    /\ pc = "extract"
    /\ revpath' = Lines(walk(Now, finpath, Cardinality(DOMAIN map) + 2))
    /\ returned' = Append(returned, [start |-> start, end |-> end, path |-> revpath'])
    /\ openList' = {}
    /\ pc' = "done"
    /\ fresh' = ShadowExtract(fresh)
    /\ UNCHANGED <<variant, calls, map, ffiMap, luaMap, graph, estimate, neighbors,
                   straightDistance, diagonalDistance, start, end, startObj,
                   usedList, cur, finpath, evaluated, err>>

\* part_000 171-194
ExtractG ==
    /\ variant = "generic"
    /\ pc = "extract"
    /\ revpath' = result(NowG, finpath)
    /\ returned' = Append(returned, [start |-> start, end |-> end, path |-> revpath'])
    /\ openList' = {}
    /\ pc' = "done"
    /\ UNCHANGED <<variant, calls, map, ffiMap, luaMap, graph, estimate, neighbors,
                   straightDistance, diagonalDistance, start, end, startObj,
                   usedList, cur, finpath, evaluated, err, fresh>>

\* index.ts 197: the caller searches the map it has searched before
Call ==
    /\ variant = "grid"
    /\ pc = "done"
    /\ calls < MaxCalls
    /\ \E s \in DOMAIN map, e \in DOMAIN map :
         /\ start' = s
         /\ end' = e
         /\ Install(Seed(map, s, e, calls + 1))
         /\ fresh' = ShadowSeed(map, s, e, calls + 1)
    /\ calls' = calls + 1
    /\ cur' = Nil
    /\ finpath' = Nil
    /\ revpath' = <<>>
    /\ pc' = "search"
    /\ UNCHANGED <<variant, ffiMap, luaMap, graph, estimate, neighbors, straightDistance,
                   diagonalDistance, returned>>

\* part_000 146: the caller searches again with the same nodes and buffer
CallG ==
    /\ variant = "generic"
    /\ pc = "done"
    /\ calls < MaxCalls
    /\ \E s \in DOMAIN luaMap, e \in DOMAIN luaMap :
         /\ start' = s
         /\ end' = e
         /\ InstallG(SeedG(ffiMap, luaMap, s, e, calls + 1))
    /\ calls' = calls + 1
    /\ cur' = Nil
    /\ finpath' = Nil
    /\ revpath' = <<>>
    /\ pc' = "search"
    /\ UNCHANGED <<variant, map, graph, estimate, neighbors, straightDistance,
                   diagonalDistance, fresh, returned>>

\* the lists a caller gives configurePathableNeighbors: the default one, the
\* four straight moves alone, and one whose blockedBy names an entry that the
\* list does not have
FourNeighbors == SubSeq(DefaultNeighbors, 1, 4)
BadNeighbors ==
    [DefaultNeighbors EXCEPT ![5].blockedBy = <<0, Len(DefaultNeighbors)>>]
NeighborLists == {DefaultNeighbors, FourNeighbors, BadNeighbors}

\* index.ts 89-91: configurePathableNeighbors(n), between two searches
Configure ==
    /\ variant = "grid"
    /\ pc = "done"
    /\ calls < MaxCalls
    /\ \E n \in NeighborLists : neighbors' = n
    /\ UNCHANGED <<variant, calls, map, ffiMap, luaMap, graph, estimate, straightDistance,
                   diagonalDistance, start, end, startObj, openList, usedList,
                   cur, finpath, revpath, evaluated, err, pc, fresh, returned>>

Next == Pop \/ PopG \/ Exhaust \/ Extract \/ ExtractG

\* one astar call of either variant
Spec == Init /\ [][Next]_vars

\* astar runs to completion: a call that can take a step takes it.  This is
\* WF_vars(Next) with ENABLED <<Next>>_vars written out: a step is possible
\* exactly while the call is in its loop or building its result.
NextEnabled == pc \in {"search", "extract"}
SpecFair == Spec /\ ([]<>(~NextEnabled) \/ []<><<Next>>_vars)

InitReuse == Begin /\ (InitGrid(ReuseCalls) \/ InitGeneric(ReuseGraphs))

NextReuse == Pop \/ PopG \/ Exhaust \/ Extract \/ ExtractG \/ Call \/ CallG

\* a caller that searches the same map, or the same nodes and buffer, again
SpecReuse == InitReuse /\ [][NextReuse]_vars

\* the maps of a caller that configures the neighbor list between searches
ConfigCalls ==
    { [m |-> MakeMap(Grid, B, {}), s |-> s, e |-> e] :
        B \in {b \in SUBSET Grid : Cardinality(b) < MaxBlocked}, s \in Grid, e \in Grid }

InitConfig == Begin /\ InitGrid(ConfigCalls)

NextConfig == Pop \/ Exhaust \/ Extract \/ Call \/ Configure

\* a caller of the grid variant that replaces the neighbor list between searches
SpecConfig == InitConfig /\ [][NextConfig]_vars

\* =============================================================== claims
\* What the claims speak of, stated on the map alone.

IsGrid == variant = "grid"
IsGeneric == variant = "generic"

Offsets == {<<neighbors[k].x, neighbors[k].y>> : k \in DOMAIN neighbors}

\* the multiplier of the move by offset <<dx, dy>>
Multiplier(dx, dy) ==
    LET k == CHOOSE j \in DOMAIN neighbors :
                 neighbors[j].x = dx /\ neighbors[j].y = dy
    IN  neighbors[k].pathCost

IsBlocked(m, x, y) == <<x, y>> \in DOMAIN m /\ m[<<x, y>>].blocked

\* the diagonal move from c by <<dx, dy>> passes between two blocked cells
CutsCorner(m, c, dx, dy) ==
    /\ dx # 0
    /\ dy # 0
    /\ IsBlocked(m, c[1] + dx, c[2])
    /\ IsBlocked(m, c[1], c[2] + dy)

\* the neighbor list as configured lets a search step from c to n: entry k
\* leads there, n is an open cell, and the cells that entry k names in
\* blockedBy are not both blocked
ListPermits(m, c, n) ==
    /\ n \in DOMAIN m
    /\ ~m[n].blocked
    /\ \E k \in DOMAIN neighbors :
         /\ n = <<c[1] + neighbors[k].x, c[2] + neighbors[k].y>>
         /\ \/ neighbors[k].blockedBy = <<>>
            \/ \E b \in 1..2 :
                 LET f == neighbors[neighbors[k].blockedBy[b] + 1]
                 IN  ~IsBlocked(m, c[1] + f.x, c[2] + f.y)

\* the topology of the specification lets a path step from c to n: n is an
\* open cell one offset away and the move does not cut a corner
TopologyPermits(m, c, n) ==
    /\ n \in DOMAIN m
    /\ ~m[n].blocked
    /\ <<n[1] - c[1], n[2] - c[2]>> \in Offsets
    /\ ~CutsCorner(m, c, n[1] - c[1], n[2] - c[2])

RECURSIVE Closure(_, _)
\* the cells a search can come to from the cells R
Closure(m, R) ==
    LET R2 == R \cup {n \in DOMAIN m : \E c \in R : ListPermits(m, c, n)}
    IN  IF R2 = R THEN R ELSE Closure(m, R2)

EndReachable == end \in Closure(map, {start})

Far == One * One

\* D is a set of <<cell, cost>> pairs, one for each cell
CostIn(D, c) == (CHOOSE p \in D : p[1] = c)[2]

RECURSIVE Relax(_, _, _)
\* least costs of the paths of at most `rounds` more moves, from the costs D
Relax(m, D, rounds) ==
    IF rounds = 0 THEN D
    ELSE Relax(m,
               { <<n, LET via == {p[2] + m[n].travelCost
                                          * Multiplier(n[1] - p[1][1], n[2] - p[1][2]) :
                                    p \in {q \in D : q[2] < Far /\ TopologyPermits(m, q[1], n)}}
                          all == via \cup {CostIn(D, n)}
                      IN  CHOOSE v \in all : \A w \in all : v <= w>> : n \in DOMAIN m },
               rounds - 1)

\* least cost of a permitted path from s to cell e (Far: there is none); the
\* start costs its own travelCost, as in the search
Cheapest(m, s, e) ==
    CostIn(Relax(m, {<<n, IF n = s THEN m[s].travelCost * One ELSE Far>> : n \in DOMAIN m},
                 Cardinality(DOMAIN m)), e)

\* the moves of the returned list, from the start end: element k + 1 is
\* left for element k
Moves == {k \in 1..(Len(revpath) - 1) : TRUE}
MoveDx(k) == revpath[k].x - revpath[k + 1].x
MoveDy(k) == revpath[k].y - revpath[k + 1].y

RECURSIVE SumCost(_)
\* the cost of the returned list from its element k to its last
SumCost(k) ==
    IF k = Len(revpath) THEN map[<<revpath[k].x, revpath[k].y>>].travelCost * One
    ELSE map[<<revpath[k].x, revpath[k].y>>].travelCost * Multiplier(MoveDx(k), MoveDy(k))
           + SumCost(k + 1)

UniformCost == \A c \in DOMAIN map : ~map[c].blocked => map[c].travelCost = 1

C2_NoCornerCut ==
    IsGrid =>
      /\ \A ev \in evaluated :
           ~CutsCorner(map, ev[1], ev[2][1] - ev[1][1], ev[2][2] - ev[1][2])
      /\ pc = "done" =>
           \A k \in Moves :
             ~CutsCorner(map, <<revpath[k + 1].x, revpath[k + 1].y>>, MoveDx(k), MoveDy(k))

\* C3: on a map of travelCost 1 a returned list costs what the cheapest path
\* the topology permits costs; on the open 5x5 grid from (0,0) to (4,4) it is
\* four diagonal moves.
C3_Optimal ==
    (IsGrid /\ pc = "done" /\ UniformCost /\ Len(revpath) > 0) =>
      /\ SumCost(1) = Cheapest(map, start, end)
      /\ (Cardinality(DOMAIN map) = 25 /\ start = <<0, 0>> /\ end = <<4, 4>>) =>
           /\ Len(revpath) = 5
           /\ \A k \in Moves : MoveDx(k) # 0 /\ MoveDy(k) # 0

\* C4: a search whose open list runs empty before the end is taken returns
\* the empty list (grid) or undefined (generic), and no call ends in an error.
C4_NoPathNoError ==
    /\ pc # "failed"
    /\ err = "none"
    /\ (pc = "done" /\ finpath = Nil) =>
         revpath = IF IsGrid THEN <<>> ELSE Absent

C4_Witness ==
    /\ pc = "done"
    /\ finpath = Nil
    /\ openList = {}
    /\ Cardinality(usedList) >= 2
    /\ \/ IsGrid /\ ~map[start].blocked /\ ~map[end].blocked
       \/ IsGeneric /\ ~ffiMap[end[1]].blocked /\ revpath = Absent

\* C5: the search loop ends: the end is taken or the open list is empty.
C5_Terminates == <>(pc # "search")

C5_Witness ==
    /\ IsGrid
    /\ pc = "extract"
    /\ Cardinality(usedList) >= 4
    /\ \E c \in DOMAIN map : map[c].travelCost = 0

\* C6: no blocked cell is in the open list, and every element of a returned
\* list that is not at the start is an open cell.
C6_NoBlockedInOpen ==
    IsGrid =>
      /\ \A e \in openList : ~IsStartNode(e.node) => ~map[e.node].blocked
      /\ pc = "done" =>
           \A k \in 1..Len(revpath) :
             <<revpath[k].x, revpath[k].y>> # start
               => ~map[<<revpath[k].x, revpath[k].y>>].blocked

C6_Witness ==
    /\ IsGrid
    /\ pc = "done"
    /\ Len(revpath) >= 3
    /\ \E ev \in evaluated : map[ev[2]].blocked

\* the cost the expansion of node p offers cell n, in the state before it
Offer(p, n) ==
    Obj(Now, p).pathCost
      + map[n].travelCost * Multiplier(n[1] - Obj(Now, p).x, n[2] - Obj(Now, p).y)

\* C7: a turn of the loop that offers a closed or an open neighbor a cost
\* below its stored one takes it out of the closed set and puts it in the
\* open list once, with the new g, f = g + h and the expanded node as parent.
C7_Reopen ==
    [][ (IsGrid /\ pc = "search" /\ pc' = "search" /\ cur' # Nil) =>
          \A ev \in evaluated' :
            LET n == ev[2]
                g == Offer(cur', n)
                h == heuristic(map[n], map[end])
            IN  ( /\ ~map[n].blocked
                  /\ n \in usedList \/ isPresent(openList \ Least(openList), n)
                       \/ (isPresent(openList, n) /\ n # cur')
                  /\ map[n].pathCost # undefined
                  /\ g < map[n].pathCost )
                =>
                ( /\ n \notin usedList'
                  /\ {e \in openList' : e.node = n} = {[key |-> g + h, node |-> n]}
                  /\ map'[n].pathCost = g
                  /\ map'[n].totalWeight = g + h
                  /\ map'[n].previous = cur' ) ]_vars

C7_Witness ==
    /\ IsGrid
    /\ pc = "search"
    /\ \E e \in openList :
         /\ ~IsStartNode(e.node)
         /\ map[e.node].inClosedList
         /\ map[e.node].previous = cur

\* C8: a generic search made again on the same nodes and buffer, with the
\* same start and end, finds a path when the first search found one.
C8_SecondSearchFinds ==
    ( /\ IsGeneric
      /\ Len(returned) >= 2
      /\ returned[2].start = returned[1].start
      /\ returned[2].end = returned[1].end
      /\ returned[1].path # Absent )
    => returned[2].path # Absent

\* C9: a grid search on a map that an earlier search has written its
\* metadata into takes the turns, and returns the list, of the same search on
\* a copy of the map without metadata.
C9_SamePathAsFresh ==
    (IsGrid /\ calls >= 2 /\ pc \in {"done", "failed"}) =>
      /\ fresh.pc = pc
      /\ pc = "done" => fresh.revpath = revpath

C9_Witness ==
    /\ IsGrid
    /\ calls = 2
    /\ pc = "done"
    /\ Len(revpath) >= 3
    /\ returned[1].start # start
    /\ Len(returned[1].path) >= 3
    /\ \E c \in DOMAIN map :
         /\ map[c].pathCost # undefined
         /\ fresh.map[c].pathCost = undefined

\* the data of the caller that is no search metadata
Static(m) ==
    [c \in DOMAIN m |-> [x |-> m[c].x, y |-> m[c].y, blocked |-> m[c].blocked,
                         travelCost |-> m[c].travelCost]]
StaticG(lm) == [n \in DOMAIN lm |-> lm[n].ffiIndex]

\* C10: no step of a call changes a cell's x, y, blocked or travelCost, the
\* shape of the map or of the buffer, the nodes' indices, the edges, the
\* neighbor list or the heuristic weights.
C10_Frame ==
    [][ /\ Static(map') = Static(map)
        /\ Static(ffiMap') = Static(ffiMap)
        /\ StaticG(luaMap') = StaticG(luaMap)
        /\ graph' = graph
        /\ estimate' = estimate
        /\ neighbors' = neighbors
        /\ straightDistance' = straightDistance
        /\ diagonalDistance' = diagonalDistance ]_vars

C10_Witness ==
    /\ pc = "done"
    /\ calls = 2
    /\ \/ IsGrid /\ \E c \in DOMAIN map : map[c].previous # Nil /\ map[c].inClosedList
       \/ IsGeneric /\ \E n \in DOMAIN luaMap : luaMap[n].previous # Nil

\* every blockedBy index of list n names an entry of n that is a straight move
ValidBlockedBy(n) ==
    \A k \in DOMAIN n :
      \A b \in DOMAIN n[k].blockedBy :
        LET i == n[k].blockedBy[b] + 1
        IN  /\ i \in DOMAIN n
            /\ (n[i].x = 0) # (n[i].y = 0)

\* C11: a list that configurePathableNeighbors has put in effect has only
\* blockedBy indices that name a straight entry of it, and no search fails on
\* such an index inside its loop.
C11_ConfigValidated ==
    /\ neighbors # DefaultNeighbors => ValidBlockedBy(neighbors)
    /\ err # "index"
    /\ pc # "failed"

\* the back-pointer of node n in the variant that runs
Prev(n) == IF IsGrid THEN Obj(Now, n).previous ELSE ObjG(NowG, n).previous

\* the nodes in the open list
OpenNodes == {e.node : e \in openList}

\* the nodes in the closed set of a first search: the grid variant files the
\* start object under the map's start cell
ClosedNodes ==
    IF IsGrid THEN {IF n = start THEN StartNode(calls) ELSE n : n \in usedList}
    ELSE usedList

Discovered == OpenNodes \cup ClosedNodes

\* C12: no node in the open list or the closed set is the parent of its own
\* parent, and no call ends in the error "loop detected".
C12_NoTwoHopLoop ==
    /\ err # "loop detected"
    /\ \A n \in Discovered : Prev(n) # Nil => Prev(Prev(n)) # n

C12_Witness ==
    /\ pc = "done"
    /\ \E n \in Discovered :
         /\ Prev(n) # Nil
         /\ Prev(Prev(n)) # Nil

RECURSIVE ClosureG(_)
\* the indices of the nodes a generic search can come to from those of R
ClosureG(R) ==
    LET R2 == R \cup {k \in DOMAIN ffiMap :
                        ~ffiMap[k].blocked /\ \E i \in R : {i, k} \in graph}
    IN  IF R2 = R THEN R ELSE ClosureG(R2)

EndReachableG == end[1] \in ClosureG({start[1]})

\* C13: when the end is reachable the generic call returns a list that
\* begins with the end node and ends with a node of the start's index, each
\* element followed by the node its back-pointer names.
C13_GenericPath ==
    (IsGeneric /\ pc = "done" /\ EndReachableG) =>
      /\ revpath # Absent
      /\ revpath[1] = end
      /\ ObjG(NowG, revpath[Len(revpath)]).ffiIndex = start[1]
      /\ \A k \in 1..(Len(revpath) - 1) : Prev(revpath[k]) = revpath[k + 1]

RECURSIVE RelaxList(_, _, _)
\* least costs of the paths of at most `rounds` more moves that the neighbor
\* list permits, from the costs D
RelaxList(m, D, rounds) ==
    IF rounds = 0 THEN D
    ELSE RelaxList(m,
               { <<n, LET via == {p[2] + m[n].travelCost
                                          * Multiplier(n[1] - p[1][1], n[2] - p[1][2]) :
                                    p \in {q \in D : q[2] < Far /\ ListPermits(m, q[1], n)}}
                          all == via \cup {CostIn(D, n)}
                      IN  CHOOSE v \in all : \A w \in all : v <= w>> : n \in DOMAIN m },
               rounds - 1)

\* the least cost of the moves from cell a to each cell (Far: there is no
\* path); standing on a costs nothing
CostsFrom(m, a) ==
    RelaxList(m, {<<n, IF n = a THEN 0 ELSE Far>> : n \in DOMAIN m},
              Cardinality(DOMAIN m) - 1)

DefaultWeights == straightDistance = One /\ diagonalDistance = Sqrt2

\* the cell a node object stands on
CellOf(n) == <<Obj(Now, n).x, Obj(Now, n).y>>

\* C14: on a grid of uniform travelCost 1, with the default weights and
\* neighbor list, the heuristic from a cell a to a cell b reachable from a
\* is at most the cost of the cheapest permitted path from a to b; so is
\* every estimate a search has stored in a node.
C14_Admissible ==
    (IsGrid /\ UniformCost /\ DefaultWeights /\ neighbors = DefaultNeighbors) =>
      /\ (pc = "search" /\ cur = Nil) =>
           \A a \in DOMAIN map :
             LET D == CostsFrom(map, a)
             IN  \A b \in DOMAIN map :
                   CostIn(D, b) < Far => heuristic(map[a], map[b]) <= CostIn(D, b)
      /\ \A n \in Discovered :
           Truthy(Obj(Now, n).heuristicToEnd) =>
             LET c == CostIn(CostsFrom(map, CellOf(n)), end)
             IN  c < Far => Obj(Now, n).heuristicToEnd <= c

\* a finished search around a blocked cell in which a node other than the
\* start holds an estimate and some node holds one below its true cost to
\* the end
C14_Witness ==
    /\ IsGrid /\ UniformCost /\ DefaultWeights /\ neighbors = DefaultNeighbors
    /\ pc = "done"
    /\ finpath # Nil
    /\ \E c \in DOMAIN map : map[c].blocked
    /\ \E n \in Discovered : ~IsStartNode(n) /\ Obj(Now, n).heuristicToEnd > 0
    /\ \E n \in Discovered :
         /\ Obj(Now, n).heuristicToEnd > 0
         /\ Obj(Now, n).heuristicToEnd < CostIn(CostsFrom(map, CellOf(n)), end)
         /\ CostIn(CostsFrom(map, CellOf(n)), end) < Far

\* C15: in the grid variant every node in the open list or the closed set
\* holds totalWeight = pathCost + heuristicToEnd, every entry of the open
\* list has that totalWeight as its key, and the start object holds its own
\* travelCost as pathCost.
C15_TotalWeight ==
    IsGrid =>
      /\ \A n \in Discovered :
           LET o == Obj(Now, n)
           IN  /\ Truthy(o.pathCost)
               /\ Truthy(o.heuristicToEnd)
               /\ o.totalWeight = o.pathCost + o.heuristicToEnd
      /\ \A e \in openList : e.key = Obj(Now, e.node).totalWeight
      /\ StartNode(calls) \in Discovered =>
           /\ startObj.pathCost = map[start].travelCost * One
           /\ startObj.heuristicToEnd = heuristic(map[start], map[end])

\* a search under way with a closed node that is not the start, reached
\* with an estimate above zero, and an open node
C15_Witness ==
    /\ IsGrid
    /\ pc = "search"
    /\ openList # {}
    /\ \E n \in ClosedNodes :
         /\ ~IsStartNode(n)
         /\ Obj(Now, n).heuristicToEnd > 0
         /\ Obj(Now, n).pathCost > map[start].travelCost * One

\* the number of entries the open list holds for node n
Entries(n) == Cardinality({e \in openList : e.node = n})

\* C16: in both variants no node is ever in the open list and in the closed
\* set at once and no node has two entries in the open list; within a call
\* a node that enters the open list is then not in the closed set, and a
\* node that enters the closed set was in the open list just before.
C16_Exclusive ==
    /\ [](/\ OpenNodes \cap ClosedNodes = {}
          /\ \A n \in OpenNodes : Entries(n) = 1)
    /\ [][calls' = calls =>
            /\ \A n \in OpenNodes' \ OpenNodes : n \notin ClosedNodes'
            /\ \A n \in ClosedNodes' \ ClosedNodes : n \in OpenNodes]_vars

\* a search under way in which a node put back after it was closed is open
\* and other nodes are closed
C16_Witness ==
    /\ pc = "search"
    /\ ClosedNodes # {}
    /\ \E n \in OpenNodes :
         /\ ~IsStartNode(n)
         /\ IF IsGrid THEN map[n].inClosedList ELSE ffiMap[n[1]].inClosedList

\* what a grid search holds for node n: g, f, back-pointer and containers
Held(n) ==
    [g |-> Obj(Now, n).pathCost, f |-> Obj(Now, n).totalWeight,
     previous |-> Obj(Now, n).previous,
     open |-> n \in OpenNodes, closed |-> n \in ClosedNodes]

\* the cost a turn of the loop offers node n from the node p it expands, by
\* the fields of the search state S
CandidateIn(S, p, n) ==
    Obj(S, p).pathCost
      + S.map[n].travelCost * Multiplier(n[1] - Obj(S, p).x, n[2] - Obj(S, p).y)

Candidate(p, n) == CandidateIn(Now, p, n)

\* C17: in a turn of a grid search, a node that was already in the open
\* list or the closed set and is not the node taken has its pathCost,
\* totalWeight, back-pointer and containers left as they were, unless its
\* pathCost becomes strictly smaller, and then the new pathCost is the
\* cost offered from the expanded node; so an offer not below the stored
\* cost changes nothing.
C17_StrictDecrease ==
    [][(IsGrid /\ pc = "search") =>
         \A n \in Discovered \ {cur'} :
            Held(n)' # Held(n) =>
               /\ Held(n)'.g < Held(n).g
               /\ Held(n)'.g = CandidateIn(Now', cur', n)
               /\ Held(n)'.open /\ ~Held(n)'.closed
               /\ Held(n)'.previous = cur']_vars

\* a search under way that has offered an open or closed node a cost not
\* below the one it holds, and has lowered the cost of another or of the
\* same node before
C17_Witness ==
    /\ IsGrid
    /\ pc = "search"
    /\ cur # Nil
    /\ \E p \in evaluated :
         /\ p[2] \in Discovered
         /\ p[2] # cur
         /\ Obj(Now, p[2]).previous # cur
         /\ Candidate(cur, p[2]) >= Obj(Now, p[2]).pathCost
    /\ \E n \in OpenNodes : ~IsStartNode(n) /\ map[n].inClosedList

\* C18: right after a generic search has expanded its start, every node
\* whose back-pointer is the start object holds as pathCost the start's
\* travelCost plus its own travelCost times twoNodeDist.
C18_StartCostCounted ==
    (IsGeneric /\ pc = "search" /\ cur = StartNode(calls)) =>
      \A n \in OpenNodes :
        Prev(n) = StartNode(calls) =>
          ffiMap[n[1]].pathCost =
            ffiMap[start[1]].travelCost * One
              + ffiMap[n[1]].travelCost * twoNodeDist(n, StartNode(calls))

\* the nodes getNeighbors gives for node p
NeighborsOf(p) == {n \in DOMAIN luaMap : {ObjG(NowG, p).ffiIndex, n[1]} \in graph}

\* node n has the index of the node that p was reached from
ReachedFrom(p, n) == Prev(p) # Nil /\ ObjG(NowG, Prev(p)).ffiIndex = n[1]

\* C19: right after a generic search has expanded node p, every neighbor of
\* p that is not blocked and is not the node p was reached from holds a
\* pathCost of at most p's pathCost plus its own travelCost times
\* twoNodeDist.
C19_NeighborsBounded ==
    (IsGeneric /\ pc = "search" /\ cur # Nil /\ cur \in usedList) =>
      \A n \in NeighborsOf(cur) :
        (~ffiMap[n[1]].blocked /\ ~ReachedFrom(cur, n)) =>
          ffiMap[n[1]].pathCost <=
            ffiMap[ObjG(NowG, cur).ffiIndex].pathCost
              + ffiMap[n[1]].travelCost * twoNodeDist(n, cur)

\* the number of node objects a chain of back-pointers can pass through
NodeCount == IF IsGrid THEN Cardinality(DOMAIN map) ELSE Cardinality(DOMAIN luaMap)

RECURSIVE ChainEnds(_, _)
\* the back-pointers from node n come to the start object of the call, which
\* has none, in at most `fuel` steps
ChainEnds(n, fuel) ==
    IF n = StartNode(calls) THEN Prev(n) = Nil
    ELSE IF fuel = 0 \/ Prev(n) = Nil THEN FALSE
    ELSE ChainEnds(Prev(n), fuel - 1)

\* C20: in both variants the back-pointers from every node in the open
\* list or the closed set, and from the node the search ended on, come to
\* the start object of the call without passing a node twice, and the start
\* object has no back-pointer.
C20_ChainsEndAtStart ==
    /\ startObj.previous = Nil
    /\ \A n \in Discovered : ChainEnds(n, NodeCount)
    /\ finpath # Nil => ChainEnds(finpath, NodeCount)

\* a search that ended on a node two or more steps from the start, where a
\* node is free to enter
C20_Witness ==
    /\ pc = "done"
    /\ finpath # Nil
    /\ Prev(finpath) # Nil
    /\ Prev(Prev(finpath)) # Nil
    /\ IF IsGrid THEN \E c \in DOMAIN map : map[c].travelCost = 0
                 ELSE \E k \in DOMAIN ffiMap : ffiMap[k].travelCost = 0
====
